---------------------------- MODULE Spec2Model ----------------------------
(***************************************************************************)
(* Model of src/src/popup.ts: the pre-processing loops of                  *)
(* renderWordEntries and renderNamesEntries (record parsing with the       *)
(* regular expression /^(.+?)\s+(?:\[(.*?)\])?\s*\/(.+)\//, grouping of    *)
(* adjacent records) and the selection rule getSelectedIndex with the      *)
(* loop that marks the selected entry.                                     *)
(*                                                                         *)
(* A JavaScript string is the sequence of its UTF-16 code units, each a     *)
(* one-character string ("a", " ", "\t", "\n", "\f", "\r"); a code unit     *)
(* that has no such literal is written "U+" and its four hexadecimal       *)
(* digits ("U+000B", "U+3000").                                            *)
(***************************************************************************)
EXTENDS Integers, Sequences, FiniteSets, TLC

VARIABLES
  kind,          \* which function runs: "parse", "words", "names"
  pc,            \* position of the running function
  data,          \* result.data: sequence of <<dictEntry, reason>>
  pos,           \* number of elements of result.data the for loop has consumed
  entries,       \* the entries array of the running function
  grouped,       \* history: for each entry, the indices of data collapsed into it
  raw,           \* the string handed to String.prototype.match
  matches,       \* the result of the match
  options,       \* the PopupOptions argument, known once the function reads it
  numEntries,    \* entries.length as passed to getSelectedIndex
  selectedIndex, \* result of getSelectedIndex
  marked,        \* indices of the entry divs that got the class -selected
  multicol       \* the names table got the class -multicol

vars == <<kind, pc, data, pos, entries, grouped, raw, matches, options,
          numEntries, selectedIndex, marked, multicol>>

-----------------------------------------------------------------------------
(* Bounds of the explored inputs *)

\* longest arbitrary string handed to the parser
MaxLen == 6
\* longest token (headword, reading, gloss part) of a templated record
MaxTokLen == 2
\* longest result.data of the word pipeline
MaxWordRecords == 4
\* longest result.data of the names pipeline
MaxNameRecords == 3

-----------------------------------------------------------------------------
(* JavaScript values *)

\* the value undefined (an unmatched capture group, an absent option)
Undefined == <<"undefined">>
\* the value null (an absent inflection reason)
Null == "null"

Max(S) == CHOOSE m \in S : \A o \in S : o <= m
Min(S) == CHOOSE m \in S : \A o \in S : m <= o

\* ToBoolean of a string or undefined
Truthy(v) == v # Undefined /\ v # <<>>

-----------------------------------------------------------------------------
(* The regular expression /^(.+?)\s+(?:\[(.*?)\])?\s*\/(.+)\//             *)

\* the line terminators: LF, CR, LS, PS
LineTerminators == {"\n", "\r", "U+2028", "U+2029"}
\* the characters \s matches: the white space and the line terminators of
\* ECMAScript (TAB, VT, FF, SP, NBSP, ZWNBSP and the space separators)
IsSpace(c) ==
  c \in {"\t", "U+000B", "\f", " ", "U+00A0", "U+FEFF",
         "U+1680", "U+2000", "U+2001", "U+2002", "U+2003", "U+2004", "U+2005",
         "U+2006", "U+2007", "U+2008", "U+2009", "U+200A", "U+202F", "U+205F",
         "U+3000"} \cup LineTerminators
\* the characters . matches: all but the line terminators
IsDot(c) == c \notin LineTerminators

\* a failed match (match() returning null)
NoMatch == [matched |-> FALSE, kanjiKana |-> <<>>, kana |-> Undefined,
            definition |-> <<>>]

\* (.+)\/ with the gloss starting at g: the ends t of a gloss s[g..t] that is
\* followed by "/"; the greedy quantifier takes the largest
GlossEnds(s, g) ==
  {t \in g..(Len(s) - 1) : /\ s[t + 1] = "/"
                           /\ \A k \in g..t : IsDot(s[k])}

\* \s*\/(.+)\/ starting at q: the lengths j of the whitespace skipped for which
\* the rest matches; the greedy quantifier takes the largest
RestSkips(s, q) ==
  {j \in 0..(Len(s) - q) : /\ s[q + j] = "/"
                           /\ \A k \in q..(q + j - 1) : IsSpace(s[k])
                           /\ GlossEnds(s, q + j + 1) # {}}

\* mutant of Rest: (.+?) in place of (.+), the gloss ends at the first "/"
RestShortestGloss(s, q) ==
  LET skips == RestSkips(s, q)
  IN  IF skips = {} THEN <<>>
      ELSE LET g == q + Max(skips) + 1
           IN  <<g, Min(GlossEnds(s, g))>>

\* \s*\/(.+)\/ starting at q: <<start, end>> of the gloss, or <<>>
Rest(s, q) ==
  LET skips == RestSkips(s, q)
  IN  IF skips = {} THEN <<>>
      ELSE LET g == q + Max(skips) + 1
           IN  <<g, Max(GlossEnds(s, g))>>

\* \[(.*?)\] starting at p and followed by a matching rest: the lengths r of
\* the bracket content; the lazy quantifier takes the smallest
GroupLens(s, p) ==
  {r \in 0..(Len(s) - p - 1) : /\ s[p] = "["
                               /\ s[p + r + 1] = "]"
                               /\ \A k \in (p + 1)..(p + r) : IsDot(s[k])
                               /\ Rest(s, p + r + 2) # <<>>}

\* (?:\[(.*?)\])?\s*\/(.+)\/ starting at p: the optional group is tried first,
\* then skipped
AfterSpace(s, p) ==
  LET lens == GroupLens(s, p)
      skipped == Rest(s, p)
  IN  IF lens # {}
      THEN LET r == Min(lens)
               g == Rest(s, p + r + 2)
           IN  [matched |-> TRUE, kana |-> SubSeq(s, p + 1, p + r),
                definition |-> SubSeq(s, g[1], g[2])]
      ELSE IF skipped # <<>>
      THEN [matched |-> TRUE, kana |-> Undefined,
            definition |-> SubSeq(s, skipped[1], skipped[2])]
      ELSE [matched |-> FALSE, kana |-> Undefined, definition |-> <<>>]

\* \s+ after a headword of length h: the lengths k of whitespace for which the
\* rest matches; the greedy quantifier takes the largest
SpaceLens(s, h) ==
  {k \in 1..(Len(s) - h) : /\ IsSpace(s[h + k])
                           /\ \A x \in (h + 1)..(h + k) : IsSpace(s[x])
                           /\ AfterSpace(s, h + k + 1).matched}

\* ^(.+?): the headword lengths h for which the rest matches; the lazy
\* quantifier takes the smallest
HeadLens(s) ==
  {h \in 1..(Len(s) - 1) : /\ IsSpace(s[h + 1])
                           /\ \A x \in 1..h : IsDot(s[x])
                           /\ SpaceLens(s, h) # {}}

\* mutant of Match: (.+) in place of (.+?), the longest headword is taken
MatchLongestHead(s) ==
  LET heads == HeadLens(s)
  IN  IF heads = {} THEN NoMatch
      ELSE LET h == Max(heads)
               a == AfterSpace(s, h + Max(SpaceLens(s, h)) + 1)
           IN  [matched |-> TRUE, kanjiKana |-> SubSeq(s, 1, h),
                kana |-> a.kana, definition |-> a.definition]

\* dictEntry.match(/^(.+?)\s+(?:\[(.*?)\])?\s*\/(.+)\//), captures 1..3
Match(s) ==
  LET heads == HeadLens(s)
  IN  IF heads = {} THEN NoMatch
      ELSE LET h == Min(heads)
               a == AfterSpace(s, h + Max(SpaceLens(s, h)) + 1)
           IN  [matched |-> TRUE, kanjiKana |-> SubSeq(s, 1, h),
                kana |-> a.kana, definition |-> a.definition]

-----------------------------------------------------------------------------
(* Inputs of the parser *)

\* the characters of the explored strings
Sigma == {"a", " ", "[", "]", "/"}

\* the strings over S of length at most n
RECURSIVE StringsUpTo(_, _)
StringsUpTo(S, n) ==
  IF n = 0 THEN {<<>>}
  ELSE LET shorter == StringsUpTo(S, n - 1)
       IN  shorter \cup {Append(w, c) : w \in shorter, c \in S}

\* headwords, readings and gloss parts: non-empty, free of whitespace, brackets
\* and slashes
Tokens == StringsUpTo({"a", "b"}, MaxTokLen) \ {<<>>}

\* the record  H [R] /G1/G2/
WellFormed(H, R, G1, G2) ==
  H \o <<" ", "[">> \o R \o <<"]", " ", "/">> \o G1 \o <<"/">> \o G2 \o <<"/">>

WellFormedRecords ==
  {WellFormed(H, R, G1, G2) : H \in Tokens, R \in Tokens, G1 \in Tokens, G2 \in Tokens}

\* strings with whitespace before the whitespace that precedes the reading or
\* the gloss:  H1 H2 /G/,  H1 H2 [R] /G/  and the same after a leading blank
SpacedRecords ==
  UNION { { H1 \o <<" ">> \o H2 \o <<" ", "/">> \o G \o <<"/">>,
            H1 \o <<" ">> \o H2 \o <<" ", "[">> \o G \o <<"]", "/">> \o G \o <<"/">>,
            <<" ">> \o H1 \o <<" ", "[">> \o H2 \o <<"]", " ", "/">> \o G \o <<"/">>,
            H1 \o <<" ", "[">> \o H2 \o <<" ", "/">> \o G \o <<"/">> } :
          H1 \in Tokens, H2 \in Tokens, G \in Tokens }

\* whitespace other than the blank, two of them line terminators
OtherSpaces == {"\f", "U+3000", "\n", "U+2028"}

\* strings with such a character after the headword, inside the gloss and
\* inside what precedes the last whitespace before the gloss:
\* H w /G/,  H /G w G/  and  H1 w H2 /G/
OtherSpaceRecords ==
  UNION { { H1 \o <<w, "/">> \o G \o <<"/">>,
            H1 \o <<" ", "/">> \o G \o <<w>> \o G \o <<"/">>,
            H1 \o <<w>> \o H2 \o <<" ", "/">> \o G \o <<"/">> } :
          H1 \in Tokens, H2 \in Tokens, G \in Tokens, w \in OtherSpaces }

-----------------------------------------------------------------------------
(* The parser on its own *)

Idle ==
  /\ data = <<>> /\ pos = 0 /\ entries = <<>> /\ grouped = <<>>
  /\ raw = <<>> /\ matches = NoMatch
  /\ options = [showDefinitions |-> TRUE]
  /\ numEntries = 0 /\ selectedIndex = -1 /\ marked = {} /\ multicol = FALSE

InitParse == kind = "parse" /\ pc = "start" /\ Idle

\* const matches = dictEntry.match(...) on an arbitrary string
ParseAny ==
  /\ kind = "parse" /\ pc = "start"
  /\ \E s \in StringsUpTo(Sigma, MaxLen) :
       /\ raw' = s
       /\ matches' = Match(s)
  /\ pc' = "matched"
  /\ UNCHANGED <<kind, data, pos, entries, grouped, options, numEntries,
                 selectedIndex, marked, multicol>>

\* const matches = dictEntry.match(...) on a record of the documented format
ParseWellFormed ==
  /\ kind = "parse" /\ pc = "start"
  /\ \E s \in WellFormedRecords :
       /\ raw' = s
       /\ matches' = Match(s)
  /\ pc' = "matched"
  /\ UNCHANGED <<kind, data, pos, entries, grouped, options, numEntries,
                 selectedIndex, marked, multicol>>

\* const matches = dictEntry.match(...) on a string with extra whitespace
ParseSpaced ==
  /\ kind = "parse" /\ pc = "start"
  /\ \E s \in SpacedRecords :
       /\ raw' = s
       /\ matches' = Match(s)
  /\ pc' = "matched"
  /\ UNCHANGED <<kind, data, pos, entries, grouped, options, numEntries,
                 selectedIndex, marked, multicol>>

\* const matches = dictEntry.match(...) on a string with a form feed, an
\* ideographic space or a line terminator
ParseOtherSpace ==
  /\ kind = "parse" /\ pc = "start"
  /\ \E s \in OtherSpaceRecords :
       /\ raw' = s
       /\ matches' = Match(s)
  /\ pc' = "matched"
  /\ UNCHANGED <<kind, data, pos, entries, grouped, options, numEntries,
                 selectedIndex, marked, multicol>>

NextParse == ParseAny \/ ParseWellFormed \/ ParseSpaced \/ ParseOtherSpace

SpecParse == InitParse /\ [][NextParse]_vars

Parsed == kind = "parse" /\ pc = "matched"

\* s starts with the string w
StartsWith(s, w) == Len(w) <= Len(s) /\ SubSeq(s, 1, Len(w)) = w

\* of every record  H [R] /G1/G2/  over Tokens that raw is, the parser yields
\* headword H, reading R and the gloss Gloss(G1, G2)
YieldsOfWellFormed(Gloss(_, _)) ==
  \A H \in Tokens : StartsWith(raw, H \o <<" ", "[">>) =>
    \A R \in Tokens : StartsWith(raw, H \o <<" ", "[">> \o R \o <<"]", " ", "/">>) =>
      \A G1 \in Tokens, G2 \in Tokens : raw = WellFormed(H, R, G1, G2) =>
        /\ matches.matched
        /\ matches.kanjiKana = H
        /\ matches.kana = R
        /\ matches.definition = Gloss(G1, G2)

GlossAsWritten(G1, G2) == G1 \o <<"/">> \o G2 \o <<"/">>
GlossWithoutTrailingSlash(G1, G2) == G1 \o <<"/">> \o G2

\* C8 as stated: for every well-formed record  H [R] /G1/G2/  the parser
\* yields headword H, reading R and gloss  G1/G2/  (with the final slash).
C8_GlossAsWritten == Parsed => YieldsOfWellFormed(GlossAsWritten)

\* C8: for every well-formed record  H [R] /G1/G2/  the parser yields
\* headword H, reading R and gloss  G1/G2 : the trailing slash is excluded,
\* the internal slash is preserved.
C8_WellFormedParse == Parsed => YieldsOfWellFormed(GlossWithoutTrailingSlash)

\* the record  ab [b] /a/ba/  was parsed into  ab, b, a/ba
C8_Witness ==
  /\ Parsed
  /\ raw = WellFormed(<<"a", "b">>, <<"b">>, <<"a">>, <<"b", "a">>)
  /\ matches.matched
  /\ matches.kanjiKana = <<"a", "b">> /\ matches.kana = <<"b">>
  /\ matches.definition = <<"a", "/", "b", "a">>

\* the grammar, without the order in which a matcher tries the alternatives:
\* \s*\/(.+)\/ fits at q
SlashGlossFits(s, q) ==
  \E j \in 0..(Len(s) - q) :
    /\ \A k \in q..(q + j - 1) : IsSpace(s[k])
    /\ s[q + j] = "/"
    /\ \E t \in (q + j + 1)..(Len(s) - 1) :
         /\ \A k \in (q + j + 1)..t : IsDot(s[k])
         /\ s[t + 1] = "/"

\* (?:\[(.*?)\])?\s*\/(.+)\/ fits at p
ReadingGlossFits(s, p) ==
  \/ SlashGlossFits(s, p)
  \/ \E r \in 0..(Len(s) - p - 1) :
       /\ s[p] = "["
       /\ \A k \in (p + 1)..(p + r) : IsDot(s[k])
       /\ s[p + r + 1] = "]"
       /\ SlashGlossFits(s, p + r + 2)

\* the prefix of length h can be the headword: whitespace follows it and the
\* rest of the grammar fits after some of that whitespace
HeadFits(s, h) ==
  /\ h >= 1
  /\ \A x \in 1..h : IsDot(s[x])
  /\ \E k \in 1..(Len(s) - h) :
       /\ \A x \in (h + 1)..(h + k) : IsSpace(s[x])
       /\ ReadingGlossFits(s, h + k + 1)

HasSpace(s) == \E k \in 1..Len(s) : IsSpace(s[k])

\* the length of the prefix of s that precedes its first whitespace
BeforeFirstSpace(s) == Min({k \in 1..Len(s) : IsSpace(s[k])}) - 1

\* C10 as stated: the captured headword of an accepted record contains no
\* whitespace and is the prefix of the record that precedes its first
\* whitespace run.
C10_HeadwordIsFirstRun ==
  (Parsed /\ matches.matched)
    => /\ ~HasSpace(matches.kanjiKana)
       /\ matches.kanjiKana = SubSeq(raw, 1, BeforeFirstSpace(raw))

\* C10: the parser accepts a record exactly if some prefix can be the
\* headword; the captured headword is the shortest such prefix, so whitespace
\* follows it; it is free of whitespace and the prefix before the record's
\* first whitespace run exactly if that prefix can be the headword.
C10_HeadwordIsShortestFit ==
  Parsed =>
    /\ matches.matched <=> \E h \in 1..Len(raw) : HeadFits(raw, h)
    /\ matches.matched =>
         LET h == Len(matches.kanjiKana)
         IN  /\ HeadFits(raw, h)
             /\ matches.kanjiKana = SubSeq(raw, 1, h)
             /\ IsSpace(raw[h + 1])
             /\ \A g \in 1..(h - 1) : ~HeadFits(raw, g)
             /\ (~HasSpace(matches.kanjiKana) /\ h = BeforeFirstSpace(raw))
                  <=> HeadFits(raw, BeforeFirstSpace(raw))

\* the record  a b /a/  was accepted with the headword  a b
C10_Witness ==
  /\ Parsed
  /\ raw = <<"a", " ", "b", " ", "/", "a", "/">>
  /\ matches.matched
  /\ matches.kanjiKana = <<"a", " ", "b">>

-----------------------------------------------------------------------------
(* getSelectedIndex and the loop that marks the selected entry *)

\* a % b of JavaScript on integers, b # 0: the sign follows the dividend
JsRem(a, b) == IF a >= 0 THEN a % b ELSE -((-a) % b)

\* !!options.copyMode
CopyModeOn(opts) == "copyMode" \in DOMAIN opts /\ opts.copyMode

\* typeof options.copyIndex !== 'undefined'
HasCopyIndex(opts) == "copyIndex" \in DOMAIN opts

\* mutant of getSelectedIndex: options.copyMode is not tested
getSelectedIndexAnyMode(opts, n) ==
  IF HasCopyIndex(opts) /\ n # 0
  THEN JsRem(opts.copyIndex, n)
  ELSE -1

getSelectedIndex(opts, n) ==
  IF CopyModeOn(opts) /\ HasCopyIndex(opts) /\ n # 0
  THEN JsRem(opts.copyIndex, n)
  ELSE -1

\* the entries whose div gets the class -selected: index === selectedIndex
\* with index running over 0 .. entries.length - 1
Selected(sel, n) == {index \in 0..(n - 1) : index = sel}

\* the values of copyIndex
CopyIndexes == {-1, 0, 1, 5}
\* PopupOptions: copyMode and copyIndex are optional
OptionValues ==
  {[showDefinitions |-> TRUE],
   [showDefinitions |-> TRUE, copyIndex |-> 1],
   [showDefinitions |-> TRUE, copyMode |-> FALSE],
   [showDefinitions |-> TRUE, copyMode |-> FALSE, copyIndex |-> 1],
   [showDefinitions |-> TRUE, copyMode |-> TRUE]} \cup
  {[showDefinitions |-> TRUE, copyMode |-> TRUE, copyIndex |-> c] :
     c \in CopyIndexes}

-----------------------------------------------------------------------------
(* renderWordEntries: the pre-processing loop and the selection *)

Last(es) == es[Len(es)]

\* mutant of WordCombines: the headwords are not compared
WordCombinesGlossOnly(es, m) ==
  /\ es # <<>>
  /\ Last(es).definition = m.definition

\* prevEntry && prevEntry.kanjiKana === kanjiKana &&
\* prevEntry.definition === definition
WordCombines(es, m) ==
  /\ es # <<>>
  /\ Last(es).kanjiKana = m.kanjiKana
  /\ Last(es).definition = m.definition

\* the entry built for a record that starts a new display entry
WordEntry(m, reason) ==
  [kanjiKana |-> m.kanjiKana,
   kana |-> IF Truthy(m.kana) THEN <<m.kana>> ELSE <<>>,
   definition |-> m.definition,
   reason |-> reason]

\* mutant of WordOutcome: a failed match is not skipped
WordOutcomeNoSkip(es, m) ==
  IF WordCombines(es, m) THEN "combine" ELSE "push"

\* what one iteration does to entries: "skip" (continue on a failed match),
\* "combine" (continue after the previous entry took the record), "push"
WordOutcome(es, m) ==
  IF ~m.matched THEN "skip"
  ELSE IF WordCombines(es, m) THEN "combine"
  ELSE "push"

\* mutant of WordLoopBody: a reading the entry already has is not added
WordLoopBodyDedup(es, m, reason) ==
  LET outcome == WordOutcome(es, m)
  IN  CASE outcome = "skip" -> es
        [] outcome = "combine" ->
             IF Truthy(m.kana) /\ m.kana \notin {Last(es).kana[x] : x \in 1..Len(Last(es).kana)}
             THEN [es EXCEPT ![Len(es)].kana = Append(@, m.kana)]
             ELSE es
        [] OTHER -> Append(es, WordEntry(m, reason))

\* mutant of WordLoopBody: the reading test is part of the combine condition,
\* so a record without reading starts a new entry
WordLoopBodyReadingInTest(es, m, reason) ==
  LET outcome == WordOutcome(es, m)
  IN  CASE outcome = "skip" -> es
        [] outcome = "combine" /\ Truthy(m.kana) ->
             [es EXCEPT ![Len(es)].kana = Append(@, m.kana)]
        [] OTHER -> Append(es, WordEntry(m, reason))

\* entries after one iteration of the loop over result.data, m being the
\* result of matching dictEntry
WordLoopBody(es, m, reason) ==
  LET outcome == WordOutcome(es, m)
  IN  CASE outcome = "skip" -> es
        [] outcome = "combine" ->
             IF Truthy(m.kana)
             THEN [es EXCEPT ![Len(es)].kana = Append(@, m.kana)]
             ELSE es
        [] OTHER -> Append(es, WordEntry(m, reason))

\* the history of one iteration: which entry took the record at index j
Collapse(gr, outcome, j) ==
  CASE outcome = "skip" -> gr
    [] outcome = "combine" -> [gr EXCEPT ![Len(gr)] = Append(@, j)]
    [] OTHER -> Append(gr, <<j>>)

\* one iteration of  for (const [dictEntry, reason] of result.data)
WordStep ==
  /\ kind = "words" /\ pc = "loop" /\ pos < Len(data)
  /\ LET dictEntry == data[pos + 1][1]
         reason == data[pos + 1][2]
         m == Match(dictEntry)
     IN  /\ raw' = dictEntry
         /\ matches' = m
         /\ entries' = WordLoopBody(entries, m, reason)
         /\ grouped' = Collapse(grouped, WordOutcome(entries, m), pos + 1)
  /\ pos' = pos + 1
  /\ UNCHANGED <<kind, pc, data, options, numEntries, selectedIndex, marked,
                 multicol>>

\* the loop over result.data ends: getSelectedIndex(options, entries.length)
\* and the loop that marks the selected entry
WordLoopEnd ==
  /\ kind = "words" /\ pc = "loop" /\ pos = Len(data)
  /\ \E opts \in OptionValues :
       /\ options' = opts
       /\ numEntries' = Len(entries)
       /\ selectedIndex' = getSelectedIndex(opts, Len(entries))
       /\ marked' = Selected(getSelectedIndex(opts, Len(entries)), Len(entries))
  /\ pc' = "done"
  /\ UNCHANGED <<kind, data, pos, entries, grouped, raw, matches, multicol>>

-----------------------------------------------------------------------------
(* renderNamesEntries: the pre-processing loop and the selection *)

\* mutant of NameTriple: the definition field is matched again until it no
\* longer matches
RECURSIVE NameTripleDeep(_)
NameTripleDeep(m) ==
  LET rematch == Match(m.definition)
  IN  IF rematch.matched THEN NameTripleDeep(rematch) ELSE m

\* [kanjiKana, kana, definition] after the definition field was matched again
NameTriple(m) ==
  LET rematch == Match(m.definition)
  IN  IF rematch.matched THEN rematch ELSE m

\* const name = kana ? { kanji: kanjiKana, kana } : { kanji: undefined, kana: kanjiKana }
NameOf(t) ==
  IF Truthy(t.kana)
  THEN [kanji |-> t.kanjiKana, kana |-> t.kana]
  ELSE [kanji |-> Undefined, kana |-> t.kanjiKana]

\* mutant of NameCombines: the rule of renderWordEntries, which also compares
\* the headwords
NameCombinesSameKanji(es, t) ==
  /\ es # <<>>
  /\ Last(es).definition = t.definition
  /\ Last(Last(es).names).kanji = NameOf(t).kanji

\* prevEntry && prevEntry.definition === definition
NameCombines(es, t) ==
  /\ es # <<>>
  /\ Last(es).definition = t.definition

\* t: the triple of a matched record, or NoMatch
NameOutcome(es, t) ==
  IF ~t.matched THEN "skip"
  ELSE IF NameCombines(es, t) THEN "combine"
  ELSE "push"

\* entries after one iteration of the loop over result.data, t being the
\* triple of dictEntry, or NoMatch
NameLoopBody(es, t) ==
  LET outcome == NameOutcome(es, t)
  IN  CASE outcome = "skip" -> es
        [] outcome = "combine" ->
             [es EXCEPT ![Len(es)].names = Append(@, NameOf(t))]
        [] OTHER -> Append(es, [names |-> <<NameOf(t)>>,
                                definition |-> t.definition])

\* one iteration of  for (const [dictEntry] of result.data)
NameStep ==
  /\ kind = "names" /\ pc = "loop" /\ pos < Len(data)
  /\ LET dictEntry == data[pos + 1][1]
         m == Match(dictEntry)
         t == IF m.matched THEN NameTriple(m) ELSE m
     IN  /\ raw' = dictEntry
         /\ matches' = m
         /\ entries' = NameLoopBody(entries, t)
         /\ grouped' = Collapse(grouped, NameOutcome(entries, t), pos + 1)
  /\ pos' = pos + 1
  /\ UNCHANGED <<kind, pc, data, options, numEntries, selectedIndex, marked,
                 multicol>>

\* the loop over result.data ends: the multi-column test,
\* getSelectedIndex(options, entries.length) and the loop that marks the
\* selected entry
NameLoopEnd ==
  /\ kind = "names" /\ pc = "loop" /\ pos = Len(data)
  /\ multicol' = (Len(entries) > 4)
  /\ \E opts \in OptionValues :
       /\ options' = opts
       /\ numEntries' = Len(entries)
       /\ selectedIndex' = getSelectedIndex(opts, Len(entries))
       /\ marked' = Selected(getSelectedIndex(opts, Len(entries)), Len(entries))
  /\ pc' = "done"
  /\ UNCHANGED <<kind, data, pos, entries, grouped, raw, matches>>

-----------------------------------------------------------------------------
(* Inputs of the two loops *)

\* the record  H [R] /G/
Rec(H, R, G) == H \o <<" ", "[">> \o R \o <<"]", " ", "/">> \o G \o <<"/">>
\* the record  H /G/
RecNoKana(H, G) == H \o <<" ", "/">> \o G \o <<"/">>

\* the sequences over S of length at most n
RECURSIVE SeqsUpTo(_, _)
SeqsUpTo(S, n) ==
  IF n = 0 THEN {<<>>}
  ELSE LET shorter == SeqsUpTo(S, n - 1)
       IN  shorter \cup {Append(w, c) : w \in shorter, c \in S}

\* elements of a word result's data: [dictEntry, reason]
WordPool ==
  { <<Rec(<<"a">>, <<"x">>, <<"g">>), "past">>,
    <<Rec(<<"a">>, <<"y">>, <<"g">>), Null>>,
    <<RecNoKana(<<"a">>, <<"g">>), "polite">>,
    <<Rec(<<"a">>, <<>>, <<"h">>), "past">>,
    <<Rec(<<"b">>, <<"x">>, <<"g">>), Null>>,
    <<<<"a", "[", "x", "]", "/", "g", "/">>, "past">> }

\* the record  H1 [R1] /H2 [R2] /G//  of the comment in renderNamesEntries
Embedded(H1, R1, H2, R2, G) == Rec(H1, R1, Rec(H2, R2, G))
\* the record  H1 [R1] /H2 [R2] /G/
EmbeddedOneSlash(H1, R1, H2, R2, G) ==
  H1 \o <<" ", "[">> \o R1 \o <<"]", " ", "/">> \o
  H2 \o <<" ", "[">> \o R2 \o <<"]", " ", "/">> \o G \o <<"/">>
\* the record  H1 [R1] /H2 [R2] /H3 [R3] /G///
EmbeddedTwice(H1, R1, H2, R2, G) == Rec(H1, R1, Rec(H2, R2, Rec(H1, R1, G)))

\* headwords, readings and glosses of the name records that embed a record
NameTokens == {<<"a">>, <<"b">>, <<"x">>, <<"y">>, <<"g">>, <<"h">>}

\* elements of a names result's data
NamePool ==
  { <<Rec(<<"a">>, <<"x">>, <<"g">>), Null>>,
    <<Rec(<<"b">>, <<"y">>, <<"g">>), Null>>,
    <<RecNoKana(<<"a">>, <<"h">>), Null>>,
    <<Rec(<<"a">>, <<>>, <<"g">>), Null>>,
    <<Embedded(<<"a">>, <<"x">>, <<"b">>, <<"y">>, <<"g">>), Null>>,
    <<EmbeddedOneSlash(<<"a">>, <<"x">>, <<"b">>, <<"y">>, <<"h">>), Null>>,
    <<EmbeddedTwice(<<"a">>, <<"x">>, <<"b">>, <<"y">>, <<"h">>), Null>>,
    <<<<"a", "[", "x", "]", "/", "g", "/">>, Null>> }

\* single name records that embed a second record, over all tokens
EmbeddedData ==
  UNION { { << <<Embedded(H1, R1, H2, R2, G), Null>> >>,
            << <<EmbeddedOneSlash(H1, R1, H2, R2, G), Null>> >>,
            << <<EmbeddedTwice(H1, R1, H2, R2, G), Null>> >> } :
          H1 \in {<<"a">>, <<"b">>}, R1 \in {<<"x">>, <<"y">>},
          H2 \in {<<"a">>, <<"b">>}, R2 \in {<<"x">>, <<"y">>},
          G \in {<<"g">>, <<"h">>} }

\* name results of five and six records over two records with different
\* glosses: up to six entries, more than the four of a single column
LongNameData ==
  LET two == { <<Rec(<<"a">>, <<"x">>, <<"g">>), Null>>,
               <<RecNoKana(<<"a">>, <<"h">>), Null>> }
  IN  SeqsUpTo(two, 6) \ SeqsUpTo(two, 4)

InitLoop ==
  /\ pc = "loop" /\ pos = 0 /\ entries = <<>> /\ grouped = <<>>
  /\ raw = <<>> /\ matches = NoMatch
  /\ options = [showDefinitions |-> TRUE]
  /\ numEntries = 0 /\ selectedIndex = -1 /\ marked = {} /\ multicol = FALSE

InitWords ==
  /\ kind = "words"
  /\ data \in SeqsUpTo(WordPool, MaxWordRecords)
  /\ InitLoop

InitNames ==
  /\ kind = "names"
  /\ data \in SeqsUpTo(NamePool, MaxNameRecords) \cup EmbeddedData
                \cup LongNameData
  /\ InitLoop

Init == InitWords \/ InitNames

Next == WordStep \/ WordLoopEnd \/ NameStep \/ NameLoopEnd

Spec == Init /\ [][Next]_vars

-----------------------------------------------------------------------------
(* The two loops as functions of result.data *)

\* the strings that occur as dictEntry
DictEntries ==
  {d[1] : d \in WordPool \cup NamePool} \cup {d[1][1] : d \in EmbeddedData}

\* Match and NameTriple on every dictEntry, computed once
MatchOf == [r \in DictEntries |-> Match(r)]
TripleOf == [r \in DictEntries |->
               IF MatchOf[r].matched THEN NameTriple(MatchOf[r]) ELSE NoMatch]

\* entries of renderWordEntries once the loop has consumed d, starting from es
RECURSIVE GroupWords(_, _)
GroupWords(es, d) ==
  IF d = <<>> THEN es
  ELSE GroupWords(WordLoopBody(es, MatchOf[Head(d)[1]], Head(d)[2]), Tail(d))

\* entries of renderNamesEntries once the loop has consumed d, starting from es
RECURSIVE GroupNames(_, _)
GroupNames(es, d) ==
  IF d = <<>> THEN es
  ELSE GroupNames(NameLoopBody(es, TripleOf[Head(d)[1]]), Tail(d))

-----------------------------------------------------------------------------
(* Properties of the two loops *)

InWords == kind = "words"
InNames == kind = "names"

\* the match of the j-th element of result.data
MatchAt(j) == MatchOf[data[j][1]]
\* its triple after the definition field was matched again
TripleAt(j) == TripleOf[data[j][1]]
\* the elements consumed so far that match
ParsedSoFar == {j \in 1..pos : MatchAt(j).matched}
\* j has a matching element before it
HasPrev(j) == \E i \in ParsedSoFar : i < j
\* the last matching element before j
Prev(j) == Max({i \in ParsedSoFar : i < j})
\* the indices of a group, as a set
Members(g) == {g[x] : x \in 1..Len(g)}
\* the entry the element j was collapsed into
EntryOf(j) == CHOOSE e \in 1..Len(grouped) : j \in Members(grouped[e])

\* grouped records, for every entry, the elements collapsed into it:
\* every matching element is in one group, in increasing order
GroupedIsHistory ==
  /\ Len(grouped) = Len(entries)
  /\ \A j \in 1..pos :
       Cardinality({e \in 1..Len(grouped) : j \in Members(grouped[e])})
         = IF j \in ParsedSoFar THEN 1 ELSE 0
  /\ \A e \in 1..Len(grouped) :
       /\ grouped[e] # <<>>
       /\ \A x \in 1..(Len(grouped[e]) - 1) : grouped[e][x] < grouped[e][x + 1]

\* the elements i and j of result.data have the same headword and gloss
SameWord(i, j) ==
  /\ MatchAt(i).kanjiKana = MatchAt(j).kanjiKana
  /\ MatchAt(i).definition = MatchAt(j).definition

\* result.data is shaped [A, A, B, A]
ShapedAABA ==
  /\ Len(data) = 4
  /\ \A j \in 1..4 : MatchAt(j).matched
  /\ SameWord(1, 2) /\ SameWord(1, 4) /\ ~SameWord(1, 3)

\* C3: a parsed record is collapsed into the last accepted entry if and only
\* if its headword and its gloss both equal that entry's, and otherwise starts
\* the next entry; so [A, A, B, A] gives 3 entries and two records with equal
\* gloss but different headwords give two entries.
C3_AdjacentMerge ==
  InWords =>
    /\ GroupedIsHistory
    /\ \A j \in ParsedSoFar :
         IF HasPrev(j)
         THEN LET last == EntryOf(Prev(j))
              IN  IF /\ entries[last].kanjiKana = MatchAt(j).kanjiKana
                     /\ entries[last].definition = MatchAt(j).definition
                  THEN EntryOf(j) = last
                  ELSE EntryOf(j) = last + 1
         ELSE EntryOf(j) = 1
    /\ (pc = "done" /\ ShapedAABA) => Len(entries) = 3
    /\ (pc = "done" /\ Len(data) = 2 /\ ParsedSoFar = {1, 2}
          /\ MatchAt(1).definition = MatchAt(2).definition
          /\ MatchAt(1).kanjiKana # MatchAt(2).kanjiKana) => Len(entries) = 2

\* [A, A, B, A] was grouped into 3 entries
C3_Witness ==
  /\ InWords /\ pc = "done" /\ ShapedAABA
  /\ Len(entries) = 3
  /\ grouped = << <<1, 2>>, <<3>>, <<4>> >>

\* the variants of the elements listed in idx, in that order
RECURSIVE NamesOf(_)
NamesOf(idx) ==
  IF idx = <<>> THEN <<>>
  ELSE <<NameOf(TripleAt(Head(idx)))>> \o NamesOf(Tail(idx))

\* C4: a parsed name record whose gloss (after the embedded-record
\* substitution) equals the last accepted entry's gloss adds its variant to
\* that entry, whatever the headwords are; any other parsed record starts an
\* entry with that one variant; so no two adjacent entries have equal gloss.
C4_NameMerge ==
  InNames =>
    /\ GroupedIsHistory
    /\ \A j \in ParsedSoFar :
         IF HasPrev(j)
         THEN LET last == EntryOf(Prev(j))
              IN  IF entries[last].definition = TripleAt(j).definition
                  THEN EntryOf(j) = last
                  ELSE EntryOf(j) = last + 1
         ELSE EntryOf(j) = 1
    /\ \A e \in 1..Len(entries) :
         /\ entries[e].names = NamesOf(grouped[e])
         /\ entries[e].definition = TripleAt(grouped[e][1]).definition
    /\ \A e \in 1..(Len(entries) - 1) :
         entries[e].definition # entries[e + 1].definition

\* two name records with different headwords and equal gloss became one entry
\* with two variants
C4_Witness ==
  /\ InNames /\ pc = "done" /\ Len(data) = 2
  /\ ParsedSoFar = {1, 2}
  /\ MatchAt(1).kanjiKana # MatchAt(2).kanjiKana
  /\ Len(entries) = 1
  /\ Len(entries[1].names) = 2
  /\ entries[1].names[1] # entries[1].names[2]

\* d without its elements that do not match
RECURSIVE OnlyParseable(_)
OnlyParseable(d) ==
  IF d = <<>> THEN <<>>
  ELSE IF MatchOf[Head(d)[1]].matched
       THEN <<Head(d)>> \o OnlyParseable(Tail(d))
       ELSE OnlyParseable(Tail(d))

\* C5: in both pipelines the entries produced from result.data are the
\* entries produced from result.data with the unparseable records removed.
C5_SkipUnparseable ==
  /\ (InWords /\ pc = "done") => entries = GroupWords(<<>>, OnlyParseable(data))
  /\ (InNames /\ pc = "done") => entries = GroupNames(<<>>, OnlyParseable(data))

\* an unparseable record between two records of one word did not prevent
\* their merge
C5_Witness ==
  /\ InWords /\ pc = "done" /\ Len(data) = 3
  /\ ParsedSoFar = {1, 3}
  /\ Len(entries) = 1
  /\ grouped = << <<1, 3>> >>
  /\ Len(entries[1].kana) = 2

\* a name record that embeds a second record was the last one consumed
AfterNameRecord == InNames /\ pos >= 1 /\ raw = data[pos][1] /\ entries # <<>>
\* the variant and the gloss the last consumed record gave
LastName == Last(Last(entries).names)
LastGloss == Last(entries).definition

\* Q of all H1, R1, H2, R2, G such that raw starts with  H1 [R1] /H2 [R2] /
ForEmbedded(Q(_, _, _, _, _)) ==
  \A H1 \in NameTokens : StartsWith(raw, H1 \o <<" ", "[">>) =>
    \A R1 \in NameTokens : StartsWith(raw, H1 \o <<" ", "[">> \o R1 \o <<"]", " ", "/">>) =>
      \A H2 \in NameTokens, R2 \in NameTokens :
        StartsWith(raw, H1 \o <<" ", "[">> \o R1 \o <<"]", " ", "/">> \o
                        H2 \o <<" ", "[">> \o R2 \o <<"]", " ", "/">>) =>
          \A G \in NameTokens : Q(H1, R1, H2, R2, G)

EmbeddedAsStated(H1, R1, H2, R2, G) ==
  raw = EmbeddedOneSlash(H1, R1, H2, R2, G) =>
    /\ LastName = [kanji |-> H2, kana |-> R2]
    /\ LastGloss = G \o <<"/">>

EmbeddedAsCoded(H1, R1, H2, R2, G) ==
  /\ raw = Embedded(H1, R1, H2, R2, G) =>
       /\ LastName = [kanji |-> H2, kana |-> R2]
       /\ LastGloss = G
  /\ raw = EmbeddedOneSlash(H1, R1, H2, R2, G) =>
       /\ LastName = [kanji |-> H1, kana |-> R1]
       /\ LastGloss = H2 \o <<" ", "[">> \o R2 \o <<"]", " ", "/">> \o G
  /\ raw = EmbeddedTwice(H1, R1, H2, R2, G) =>
       /\ LastName = [kanji |-> H2, kana |-> R2]
       /\ LastGloss = Rec(H1, R1, G)

\* C7 as stated: a name record  H1 [R1] /H2 [R2] /G/  gives a variant with
\* the embedded headword H2 and reading R2 and the gloss  G/ .
C7_EmbeddedOneSlash == AfterNameRecord => ForEmbedded(EmbeddedAsStated)

\* C7: a name record  H1 [R1] /H2 [R2] /G//  (the gloss field is a complete
\* record) gives a variant with the embedded H2 and R2 and the gloss G; the
\* record  H1 [R1] /H2 [R2] /G/  keeps H1 and R1 with the gloss
\* H2 [R2] /G ; the substitution is applied once: of
\* H1 [R1] /H2 [R2] /H1 [R1] /G///  the gloss is the record  H1 [R1] /G/ .
C7_EmbeddedRecord == AfterNameRecord => ForEmbedded(EmbeddedAsCoded)

\* the record  a [x] /b [y] /g//  gave the variant  b, y  and the gloss  g
C7_Witness ==
  /\ AfterNameRecord /\ pos = 1
  /\ raw = Embedded(<<"a">>, <<"x">>, <<"b">>, <<"y">>, <<"g">>)
  /\ entries = << [names |-> << [kanji |-> <<"b">>, kana |-> <<"y">>] >>,
                   definition |-> <<"g">>] >>

\* an iteration of the word loop on a record that matches
WordIteration ==
  InWords /\ pc = "loop" /\ pos' = pos + 1 /\ matches'.matched

\* the record of the iteration has the headword and gloss of the last entry
SameAsLast ==
  /\ entries # <<>>
  /\ Last(entries).kanjiKana = matches'.kanjiKana
  /\ Last(entries).definition = matches'.definition

\* the iteration appended the reading to the last entry and created no entry
ReadingAppended ==
  /\ entries' = [entries EXCEPT ![Len(entries)].kana = Append(@, matches'.kana)]
  /\ Last(entries').reason = Last(entries).reason

\* the iteration started a new entry from the record
EntryStarted ==
  entries' = Append(entries,
                    [kanjiKana |-> matches'.kanjiKana,
                     kana |-> IF Truthy(matches'.kana) THEN <<matches'.kana>> ELSE <<>>,
                     definition |-> matches'.definition,
                     reason |-> data[pos + 1][2]])

\* C9 as stated: a parsed record with the last entry's headword and gloss and
\* a non-empty reading has its reading appended to that entry; in every other
\* case, equal headword and gloss with an absent or empty reading included, a
\* new entry is started.
C9_StepRuleAsStated ==
  [][WordIteration =>
       IF SameAsLast /\ Truthy(matches'.kana) THEN ReadingAppended
       ELSE EntryStarted]_vars

\* C9: a parsed record with the last entry's headword and gloss has its
\* reading appended to that entry if the reading is non-empty and leaves the
\* entries unchanged if it is absent or empty; no entry is created and the
\* reason stays that of the entry's first record. Any other parsed record
\* starts a new entry with its headword, gloss, reason and its reading, if any.
C9_StepRule ==
  [][WordIteration =>
       IF SameAsLast
       THEN IF Truthy(matches'.kana) THEN ReadingAppended
            ELSE entries' = entries
       ELSE EntryStarted]_vars

\* a record without reading that repeats the headword and gloss of the first
\* record was collapsed into its entry, which keeps the first reason
C9_Witness ==
  /\ InWords /\ pos = 2 /\ matches.matched /\ ~Truthy(matches.kana)
  /\ grouped = << <<1, 2>> >>
  /\ Len(entries) = 1
  /\ entries[1].reason = data[1][2] /\ data[2][2] # data[1][2]

\* the non-empty readings of the elements listed in idx, in that order
RECURSIVE ReadingsOf(_)
ReadingsOf(idx) ==
  IF idx = <<>> THEN <<>>
  ELSE (IF MatchAt(Head(idx)).matched /\ Truthy(MatchAt(Head(idx)).kana)
        THEN <<MatchAt(Head(idx)).kana>> ELSE <<>>) \o ReadingsOf(Tail(idx))

\* the reading lists of es, concatenated
RECURSIVE AllReadings(_)
AllReadings(es) ==
  IF es = <<>> THEN <<>> ELSE Head(es).kana \o AllReadings(Tail(es))

\* 1, 2, ..., n
UpTo(n) == [j \in 1..n |-> j]

\* C6: the reading lists of the entries, concatenated in entry order, are the
\* non-empty readings of the parseable records in input order, duplicates
\* included, and each entry holds the non-empty readings of the records
\* collapsed into it.
C6_ReadingsKept ==
  InWords =>
    /\ AllReadings(entries) = ReadingsOf(UpTo(pos))
    /\ Len(grouped) = Len(entries)
    /\ \A e \in 1..Len(entries) : entries[e].kana = ReadingsOf(grouped[e])

\* four records of one word, one of them without a reading and two with the
\* same reading, became one entry that keeps the duplicate
C6_Witness ==
  /\ InWords /\ pc = "done" /\ Len(data) = 4
  /\ Len(entries) = 1
  /\ grouped = << <<1, 2, 3, 4>> >>
  /\ Len(entries[1].kana) = 3
  /\ \E x \in 1..2 : entries[1].kana[x] = entries[1].kana[x + 1]

-----------------------------------------------------------------------------
(* Properties of getSelectedIndex *)

Rendered == kind \in {"words", "names"} /\ pc = "done"

\* C1: with copy mode active, a defined copyIndex and entryCount > 0, the
\* selected index is copyIndex modulo entryCount taken as a non-negative
\* modulo, so it lies in [0, entryCount).
C1_NonNegativeModulo ==
  (Rendered /\ CopyModeOn(options) /\ HasCopyIndex(options) /\ numEntries > 0)
    => /\ selectedIndex = options.copyIndex % numEntries
       /\ selectedIndex \in 0..(numEntries - 1)

\* C2: the selection rule returns -1 whenever copy mode is not active (false
\* or absent), or copyIndex is undefined, or the entry count is 0, whatever
\* the other two arguments are, and then no rendered entry is marked selected.
C2_NoSelection ==
  (Rendered /\ (~CopyModeOn(options) \/ ~HasCopyIndex(options) \/ numEntries = 0))
    => /\ numEntries = Len(entries)
       /\ selectedIndex = -1
       /\ marked = {}

\* an inactive copy mode with a copyIndex that would select entry 1 of 3
C2_Witness ==
  /\ Rendered /\ InNames
  /\ "copyMode" \in DOMAIN options /\ ~options.copyMode
  /\ HasCopyIndex(options) /\ options.copyIndex = 1 /\ numEntries = 3
  /\ selectedIndex = -1 /\ marked = {}

=============================================================================
